---- MODULE Spec2Model ----
(***************************************************************************)
(* Classroom attendance tracker: the relational schema with its row-level  *)
(* security policies and triggers (supabase/migrations), the QR check-in   *)
(* page ScanQR, the CreateCourse form and the ChatAnalytics dialog of the  *)
(* professor's dashboard, as state machines.                               *)
(***************************************************************************)
EXTENDS Integers, Sequences, FiniteSets, TLC

(***************************************************************************)
(* Bounds of the model.                                                    *)
(***************************************************************************)
\* course ids the database generates (gen_random_uuid), 1..MaxCourses, never reused
MaxCourses == 2
\* attendance record ids the database generates, never reused
MaxRecords == 2
\* scan callbacks the scanner delivers in one run of the ScanQR page
MaxScans == 2
\* clock ticks per local calendar day, and the last tick of the model's clock
TicksPerDay == 2
MaxTime == 2
\* times Start Scanning is pressed in one run of the ScanQR page
MaxStarts == 1
\* resolution of Math.random(): its values are the multiples of 1/RandomUnit below 1
RandomUnit == 100
\* length of the cycle of values Math.random() returns during one loadFakeData
MaxCycle == 2
\* times Send Warning Emails is pressed in one run of the dashboard
MaxSends == 1

\* auth.users ids; NULL is SQL NULL / JS null and undefined (auth.uid() of an
\* anonymous request, user?.id before getUser resolved)
Users == {"u1", "u2"}
NULL == "null"
Identities == Users \cup {NULL}
\* app_role enum
app_role == {"student", "professor", "admin"}
\* a course id that is absent or falsy (0 never names a row)
NoId == 0
CourseIds == 1..MaxCourses

VARIABLES
    \* ---- database (migration) ----
    users,               \* auth.users: ids of the existing users
    deleted,             \* ids of deleted auth users (ids are never reused)
    profiles,            \* public.profiles rows
    user_roles,          \* public.user_roles rows
    courses,             \* public.courses rows
    attendance_records,  \* public.attendance_records rows
    nextCourse,          \* next generated courses.id
    nextRecord,          \* next generated attendance_records.id
    now,                 \* the clock (ticks)
    req,                 \* the last request the database served
    \* ---- the browser ----
    session,             \* identity of the auth session: auth.uid() of its requests
    \* ---- ScanQR page ----
    page,                \* "scan" while ScanQR is mounted, else the route it left to
    user,                \* useState: the signed-in user's id, NULL until known
    scanning,            \* useState
    location,            \* useState: <<>> (null) or <<position>>
    scannerRef,          \* useRef: index into scanners, 0 for null
    scanners,            \* the Html5Qrcode objects created so far
    tasks,               \* the runs of handleQRCodeScanned, one per scan callback
    \* ---- CreateCourse page ----
    cc_page,             \* "create-course" while CreateCourse is mounted
    cc_user,             \* useState user: the signed-in user's id, NULL until known
    cc_loading,          \* useState loading
    cc_form,             \* the form fields handleSubmit last read: <<>> or <<fields>>
    cc_request,          \* the courses inserts in flight: the payloads, oldest first
    cc_toast,            \* title of the last toast, "" for none
    \* ---- ProfessorDashboard with its ChatAnalytics dialog ----
    ca_open,             \* useState chatAnalyticsOpen: the dialog's open prop
    ca_courses,          \* useState courses: the dialog's courses prop (course ids)
    ca_students,         \* useState students
    ca_loading,          \* useState loading
    ca_sendingEmails,    \* useState sendingEmails
    ca_timers,           \* runs of handleSendEmails waiting for their setTimeout
    ca_toasts            \* the toasts the dialog has shown, oldest first

dbVars == <<users, deleted, profiles, user_roles, courses, attendance_records,
            nextCourse, nextRecord>>
scanVars == <<page, user, scanning, location, scannerRef, scanners, tasks>>
ccVars == <<cc_page, cc_user, cc_loading, cc_form, cc_request, cc_toast>>
caVars == <<ca_open, ca_courses, ca_students, ca_loading, ca_sendingEmails, ca_timers,
            ca_toasts>>
clientVars == <<session, scanVars, caVars, ccVars, caVars>>
vars == <<dbVars, now, req, clientVars>>

(***************************************************************************)
(* SQL helpers                                                             *)
(***************************************************************************)
\* SQL equality in a policy: a comparison with NULL is not true
SqlEq(a, b) == a # NULL /\ b # NULL /\ a = b

CourseRowIds == {c.id : c \in courses}

\* has_role(_user_id, _role): EXISTS (SELECT 1 FROM user_roles WHERE ...)
has_role(_user_id, _role) ==
    \E r \in user_roles : SqlEq(r.user_id, _user_id) /\ r.role = _role

(***************************************************************************)
(* Row-level security policies                                             *)
(***************************************************************************)
\* "Users can update own profile": USING (auth.uid() = id); with no WITH CHECK
\* the USING expression also checks the new row
ProfilesUpdatePolicy(uid, row) == SqlEq(uid, row.id)

\* "Users can insert own profile": WITH CHECK (auth.uid() = id)
ProfilesInsertPolicy(uid, row) == SqlEq(uid, row.id)

\* profiles has row-level security enabled and no policy FOR DELETE: no row is
\* visible to a DELETE
ProfilesDeletePolicy(uid, row) == FALSE

\* "Users can insert own role during signup": WITH CHECK (auth.uid() = user_id)
RolesInsertPolicy(uid, row) == SqlEq(uid, row.user_id)

\* "Professors can create courses"
AnyAuthenticatedCoursePolicy(uid, row) == uid # NULL
CoursesInsertPolicy(uid, row) == has_role(uid, "professor") \/ has_role(uid, "admin")

\* "Professors can update own courses"
AnyProfessorUpdatePolicy(uid, row) == has_role(uid, "professor") \/ has_role(uid, "admin")
CoursesUpdatePolicy(uid, row) == SqlEq(row.professor_id, uid) \/ has_role(uid, "admin")

\* "Admins can delete courses"
CoursesDeletePolicy(uid, row) == has_role(uid, "admin")

\* "Students can view own attendance"
AnyRoleSelectPolicy(uid, row) ==
    SqlEq(row.student_id, uid) \/ \E r \in app_role : has_role(uid, r)
AttendanceSelectPolicy(uid, row) ==
    \/ SqlEq(row.student_id, uid)
    \/ has_role(uid, "professor")
    \/ has_role(uid, "admin")

\* "Students can create own attendance": WITH CHECK (student_id = auth.uid())
AnyAuthenticatedInsertPolicy(uid, row) == uid # NULL
AttendanceInsertPolicy(uid, row) == SqlEq(row.student_id, uid)

\* "Professors and admins can update attendance"
AttendanceUpdatePolicy(uid, row) == has_role(uid, "professor") \/ has_role(uid, "admin")

(***************************************************************************)
(* Table constraints                                                       *)
(***************************************************************************)
\* profiles: id PRIMARY KEY REFERENCES auth.users(id)
ProfilesConstraints(row, others) ==
    /\ row.id \in users
    /\ \A p \in others : p.id # row.id

\* user_roles: user_id NOT NULL REFERENCES auth.users(id), UNIQUE(user_id, role)
RolesConstraints(row) ==
    /\ row.user_id \in users
    /\ row \notin user_roles

\* courses: professor_id NOT NULL REFERENCES auth.users(id)
CoursesConstraints(row) == row.professor_id \in users

\* attendance_records: student_id NOT NULL REFERENCES auth.users(id),
\* course_id NOT NULL REFERENCES courses(id)
AttendanceConstraints(row) ==
    /\ row.student_id \in users
    /\ row.course_id \in CourseRowIds

(***************************************************************************)
(* Rows                                                                    *)
(***************************************************************************)
\* values of the text columns the model distinguishes
Names == {"", "x"}
\* raw_user_meta_data->>'full_name' of a sign-up: absent or a name
MetaNames == {NULL, "x"}
\* profiles.full_name is nullable: an UPDATE may set it to NULL
ProfileNames == Names \cup {NULL}

\* a nullable numeric column: <<>> is NULL, <<v>> the value v
NullNum == <<>>
Some(v) == <<v>>

ProfileRow(id, full_name) == [id |-> id, full_name |-> full_name]
RoleRow(user_id, role) == [user_id |-> user_id, role |-> role]
CourseRow(id, professor_id, name) ==
    [id |-> id, professor_id |-> professor_id, name |-> name]
\* checked_in_at DEFAULT now(): the insert never sends it.  inserted_by is not a
\* column: it records auth.uid() of the request that inserted the row
AttendanceRow(id, uid, student_id, course_id, lat, lng, acc) ==
    [id |-> id, student_id |-> student_id, course_id |-> course_id,
     checked_in_at |-> now, latitude |-> lat, longitude |-> lng,
     location_accuracy |-> acc, inserted_by |-> uid]

\* the request log: who asked for what, whether it changed the database, and the
\* rows a SELECT returned
Request(op, uid, ok, rows) == [op |-> op, uid |-> uid, ok |-> ok, rows |-> rows]
NoRequest == Request("other", NULL, FALSE, {})

(***************************************************************************)
(* Referential actions                                                     *)
(***************************************************************************)
\* attendance_records.course_id REFERENCES courses(id) ON DELETE CASCADE
NoCascadeCourseDelete(recs, gone) == recs
CascadeCourseDelete(recs, gone) == {a \in recs : a.course_id \notin gone}

\* attendance_records.student_id REFERENCES auth.users(id) ON DELETE CASCADE
CascadeStudentDelete(recs, u) == {a \in recs : a.student_id # u}

\* courses.professor_id REFERENCES auth.users(id) ON DELETE CASCADE
CascadeProfessorDelete(rows, u) == {c \in rows : c.professor_id # u}

\* profiles.id REFERENCES auth.users(id) ON DELETE CASCADE
CascadeProfileDelete(rows, u) == {p \in rows : p.id # u}

\* user_roles.user_id REFERENCES auth.users(id) ON DELETE CASCADE
CascadeRoleDelete(rows, u) == {r \in rows : r.user_id # u}

(***************************************************************************)
(* Database statements: each is one transaction                            *)
(***************************************************************************)
\* COALESCE(v, d)
Coalesce(v, d) == IF v = NULL THEN d ELSE v

\* trigger on_auth_user_created: INSERT INTO profiles (id, email, full_name)
\* VALUES (NEW.id, NEW.email, COALESCE(NEW.raw_user_meta_data->>'full_name', ''))
NoProfileOnSignUp(rows, id, meta_full_name) == rows
handle_new_user(rows, id, meta_full_name) ==
    rows \cup {ProfileRow(id, Coalesce(meta_full_name, ""))}

\* INSERT INTO auth.users (a sign-up); the trigger runs in the same transaction
SignUp(u, full_name) ==
    /\ u \notin users /\ u \notin deleted
    /\ users' = users \cup {u}
    /\ profiles' = handle_new_user(profiles, u, full_name)
    /\ UNCHANGED <<deleted, user_roles, courses, attendance_records, nextCourse,
                   nextRecord>>

\* DELETE FROM auth.users WHERE id = u (service role: no policy applies)
DeleteUser(u) ==
    /\ u \in users
    /\ users' = users \ {u}
    /\ deleted' = deleted \cup {u}
    /\ profiles' = CascadeProfileDelete(profiles, u)
    /\ user_roles' = CascadeRoleDelete(user_roles, u)
    /\ courses' = CascadeProfessorDelete(courses, u)
    /\ attendance_records' =
         CascadeCourseDelete(CascadeStudentDelete(attendance_records, u),
                             CourseRowIds \ {c.id : c \in courses'})
    /\ UNCHANGED <<nextCourse, nextRecord>>

\* INSERT INTO profiles
InsertProfile(uid, id, full_name) ==
    LET row == ProfileRow(id, full_name)
        ok == ProfilesInsertPolicy(uid, row) /\ ProfilesConstraints(row, profiles)
    IN  /\ profiles' = IF ok THEN profiles \cup {row} ELSE profiles
        /\ UNCHANGED <<users, deleted, user_roles, courses, attendance_records,
                       nextCourse, nextRecord>>

\* UPDATE profiles SET id = newid, full_name = ... WHERE id = id
UpdateProfile(uid, id, newid, full_name) ==
    LET old == {p \in profiles : p.id = id /\ ProfilesUpdatePolicy(uid, p)}
        row == ProfileRow(newid, full_name)
        ok == /\ old # {}
              /\ ProfilesUpdatePolicy(uid, row)
              /\ ProfilesConstraints(row, profiles \ old)
    IN  /\ profiles' = IF ok THEN (profiles \ old) \cup {row} ELSE profiles
        /\ UNCHANGED <<users, deleted, user_roles, courses, attendance_records,
                       nextCourse, nextRecord>>

\* DELETE FROM profiles WHERE id = id
DeleteProfile(uid, id) ==
    LET old == {p \in profiles : p.id = id /\ ProfilesDeletePolicy(uid, p)}
    IN  /\ profiles' = profiles \ old
        /\ UNCHANGED <<users, deleted, user_roles, courses, attendance_records,
                       nextCourse, nextRecord>>

\* INSERT INTO user_roles
InsertRole(uid, user_id, role) ==
    LET row == RoleRow(user_id, role)
        ok == RolesInsertPolicy(uid, row) /\ RolesConstraints(row)
    IN  /\ user_roles' = IF ok THEN user_roles \cup {row} ELSE user_roles
        /\ UNCHANGED <<users, deleted, profiles, courses, attendance_records,
                       nextCourse, nextRecord>>

\* INSERT INTO courses
CoursesInsert(uid, professor_id, name) ==
    LET row == CourseRow(nextCourse, professor_id, name)
        ok == CoursesInsertPolicy(uid, row) /\ CoursesConstraints(row)
    IN  /\ nextCourse <= MaxCourses
        /\ courses' = IF ok THEN courses \cup {row} ELSE courses
        /\ nextCourse' = IF ok THEN nextCourse + 1 ELSE nextCourse
        /\ UNCHANGED <<users, deleted, profiles, user_roles, attendance_records,
                       nextRecord>>

\* UPDATE courses SET professor_id = ..., name = ... WHERE id = id
UpdateCourse(uid, id, professor_id, name) ==
    LET old == {c \in courses : c.id = id /\ CoursesUpdatePolicy(uid, c)}
        row == CourseRow(id, professor_id, name)
        ok == /\ old # {}
              /\ CoursesUpdatePolicy(uid, row)
              /\ CoursesConstraints(row)
    IN  /\ courses' = IF ok THEN (courses \ old) \cup {row} ELSE courses
        /\ UNCHANGED <<users, deleted, profiles, user_roles, attendance_records,
                       nextCourse, nextRecord>>

\* DELETE FROM courses WHERE id = id
DeleteCourse(uid, id) ==
    LET old == {c \in courses : c.id = id /\ CoursesDeletePolicy(uid, c)}
    IN  /\ courses' = courses \ old
        /\ attendance_records' =
             CascadeCourseDelete(attendance_records, {c.id : c \in old})
        /\ UNCHANGED <<users, deleted, profiles, user_roles, nextCourse, nextRecord>>

\* INSERT INTO attendance_records
AttendanceInsert(uid, student_id, course_id, lat, lng, acc) ==
    LET row == AttendanceRow(nextRecord, uid, student_id, course_id, lat, lng, acc)
        ok == AttendanceInsertPolicy(uid, row) /\ AttendanceConstraints(row)
    IN  /\ nextRecord <= MaxRecords
        /\ attendance_records' =
             IF ok THEN attendance_records \cup {row} ELSE attendance_records
        /\ nextRecord' = IF ok THEN nextRecord + 1 ELSE nextRecord
        /\ UNCHANGED <<users, deleted, profiles, user_roles, courses, nextCourse>>

\* UPDATE attendance_records SET student_id = ..., course_id = ... WHERE id = id
UpdateAttendance(uid, id, student_id, course_id) ==
    LET old == {a \in attendance_records :
                   a.id = id /\ AttendanceUpdatePolicy(uid, a)}
        new == {[a EXCEPT !.student_id = student_id, !.course_id = course_id] :
                   a \in old}
        ok == /\ old # {}
              /\ \A a \in new : AttendanceUpdatePolicy(uid, a)
                                   /\ AttendanceConstraints(a)
    IN  /\ attendance_records' =
             IF ok THEN (attendance_records \ old) \cup new ELSE attendance_records
        /\ UNCHANGED <<users, deleted, profiles, user_roles, courses, nextCourse,
                       nextRecord>>

\* SELECT * FROM attendance_records: the rows the policy lets the identity see
SelectAttendance(uid) ==
    {a \in attendance_records : AttendanceSelectPolicy(uid, a)}

\* the log entry of the request that this step serves
Logged(op, uid, rows) == req' = Request(op, uid, dbVars' # dbVars, rows)
Unlogged == req' = NoRequest


(***************************************************************************)
(* ScanQR: the check-in page                                               *)
(***************************************************************************)
Scans == 1..MaxScans

\* toast titles of handleQRCodeScanned
InvalidQRCode == "Invalid QR Code"
CourseNotFound == "Course not found"
AlreadyCheckedIn == "Already checked in"
CheckInFailed == "Check-in failed"
CheckInSuccessful == "Check-in successful!"
\* the toasts shown with variant: "destructive"
Destructive == {InvalidQRCode, CourseNotFound, AlreadyCheckedIn, CheckInFailed}

\* positions navigator.geolocation delivers
Positions == {[lat |-> 0, lng |-> 2, accuracy |-> 1]}

\* the text a QR code holds, by what JSON.parse makes of it: json is "object" for
\* a JSON object (its members follow; an absent member is NoId, "" or 0), "null"
\* for the JSON text null, "primitive" for a JSON number, string or boolean, and
\* "none" for a text JSON.parse throws on (the text follows).  A text is named
\* by a number: NoId for the empty text, c for the text of course id c
QRText(json, course_id, id, course_name, course_code, timestamp, text) ==
    [json |-> json, course_id |-> course_id, id |-> id,
     course_name |-> course_name, course_code |-> course_code,
     timestamp |-> timestamp, text |-> text]
JsonObject(course_id, id, course_name, course_code, timestamp) ==
    QRText("object", course_id, id, course_name, course_code, timestamp, NoId)
JsonNull == QRText("null", NoId, NoId, "", "", 0, NoId)
JsonPrimitive == QRText("primitive", NoId, NoId, "", "", 0, NoId)
PlainText(text) == QRText("none", NoId, NoId, "", "", 0, text)

\* JSON.stringify({course_id, course_name, course_code, timestamp})
QRCodeCamelCaseKey(courseId, courseName, courseCode, timestamp) ==
    JsonObject(NoId, NoId, courseName, courseCode, timestamp)
QRCodeGenerator(courseId, courseName, courseCode, timestamp) ==
    JsonObject(courseId, NoId, courseName, courseCode, timestamp)

\* courseData: JSON.parse(qrData) or, when that throws, {course_id: qrData};
\* a member read off a JSON number, string or boolean is undefined
CourseData(qrData) ==
    CASE qrData.json = "none" -> [course_id |-> qrData.text, id |-> NoId]
      [] qrData.json = "object" -> [course_id |-> qrData.course_id, id |-> qrData.id]
      [] OTHER -> [course_id |-> NoId, id |-> NoId]

\* courseData.course_id of the value null throws a TypeError
ParseThrows(qrData) == qrData.json = "null"

\* courseData.course_id || courseData.id
ParseCourseId(qrData) ==
    LET courseData == CourseData(qrData)
    IN  IF courseData.course_id # NoId THEN courseData.course_id ELSE courseData.id

\* a run of handleQRCodeScanned that has not started
IdleTask ==
    [pc |-> "idle",       \* idle, lookup, dup, insert (the call in flight), done
     user |-> NULL,       \* user and location of the render whose closure runs
     location |-> <<>>,
     qrData |-> PlainText(NoId),  \* the decoded text the callback was given
     courseId |-> NoId,
     today |-> 0,
     calls |-> <<>>,      \* the network calls issued, in order
     failed |-> {},       \* the calls that failed on the network; "rejected" when
                          \* the database refused the insert
     course |-> NoId,     \* data of the course lookup
     matches |-> 0,       \* rows the duplicate query matched when it was served
     existingRecord |-> 0,\* data of the duplicate query (a record id, 0 for null)
     inserted |-> 0,      \* id of the record this run created
     toasts |-> {},
     nav |-> "none"]      \* the setTimeout(navigate("/student")): none, armed, done

\* the ScanQR page is not mounted
ScanQRAway ==
    /\ page = "away" /\ user = NULL /\ scanning = FALSE /\ location = <<>>
    /\ scannerRef = 0 /\ scanners = <<>>
    /\ tasks = [t \in Scans |-> IdleTask]

\* the page right after its first render
ScanQRMounted ==
    /\ page = "scan" /\ user = NULL /\ scanning = FALSE /\ location = <<>>
    /\ scannerRef = 0 /\ scanners = <<>>
    /\ tasks = [t \in Scans |-> IdleTask]

\* today.setHours(0, 0, 0, 0)
StartOfDay(t) == (t \div TicksPerDay) * TicksPerDay
\* tomorrow.setDate(tomorrow.getDate() + 1)
NextDay(d) == d + TicksPerDay

\* PostgREST .single(): the row when exactly one row matches, else an error and
\* data null (0)
Single(rows) == IF Cardinality(rows) = 1 THEN (CHOOSE r \in rows : TRUE).id ELSE 0

\* from("courses").select("id, name, code").eq("id", courseId)
CourseLookup(courseId) == {c \in courses : c.id = courseId}

\* from("attendance_records").select("id").eq("student_id", user?.id)
\*   .eq("course_id", courseId).gte("checked_in_at", today).lt("checked_in_at", tomorrow)
\* as the session's identity sees the table
DuplicateQuery(uid, student_id, courseId, today) ==
    {a \in SelectAttendance(uid) :
        /\ SqlEq(a.student_id, student_id)
        /\ a.course_id = courseId
        /\ a.checked_in_at >= today
        /\ a.checked_in_at < NextDay(today)}

\* if (courseError || !course)
CourseMissing(courseError, course) == courseError \/ course = NoId

\* if (existingRecord)
NeverExistingRecord(existingRecord) == FALSE
HasExistingRecord(existingRecord) == existingRecord # 0

\* location?.lat || null: a falsy number is sent as null
OrNull(v) == IF v = 0 THEN NullNum ELSE Some(v)
Latitude(loc) == IF loc = <<>> THEN NullNum ELSE OrNull(loc[1].lat)
Longitude(loc) == IF loc = <<>> THEN NullNum ELSE OrNull(loc[1].lng)
Accuracy(loc) == IF loc = <<>> THEN NullNum ELSE OrNull(loc[1].accuracy)

\* scannerRef.current.stop() is refused (a throw, or a rejected promise) unless the
\* scanner is running
StopRefused == scannerRef # 0 /\ scanners[scannerRef].state # "running"

\* stopScanning(): if (scannerRef.current) scannerRef.current.stop().then(...)
NeverStops == scanners
stopScanning ==
    IF scannerRef # 0 /\ scanners[scannerRef].state = "running"
    THEN [scanners EXCEPT ![scannerRef].state = "stopping"]
    ELSE scanners

\* whether this call of stopScanning throws: thr chooses between the throw and
\* the rejected promise of a refused stop()
Throws(thr) == StopRefused /\ thr
ThrowChoices == IF StopRefused THEN BOOLEAN ELSE {FALSE}

\* toast({variant: "destructive", title}); stopScanning(); return -- inside the
\* try: a throw of stopScanning lands in the catch, which toasts "Check-in failed"
\* and calls stopScanning again
ReportAndStop(t, task, title, thr) ==
    /\ tasks' = [tasks EXCEPT ![t] =
                   [task EXCEPT !.pc = "done",
                                !.toasts = task.toasts \cup {title} \cup
                                    (IF Throws(thr) THEN {CheckInFailed} ELSE {})]]
    /\ scanners' = stopScanning

\* the scanner's success callback: handleQRCodeScanned(decodedText) up to its
\* first await; a TypeError of the parse lands in the catch, which toasts
\* "Check-in failed" and calls stopScanning
ScanDelivered(i, qrData, thr) ==
    /\ i \in DOMAIN scanners /\ scanners[i].state = "running"
    /\ \E t \in Scans :
         /\ tasks[t].pc = "idle"
         /\ \A s \in Scans : s < t => tasks[s].pc # "idle"
         /\ LET courseId == ParseCourseId(qrData)
                given == [tasks[t] EXCEPT !.user = scanners[i].user,
                                          !.location = scanners[i].location,
                                          !.qrData = qrData]
                task == [given EXCEPT !.courseId = courseId]
            IN  CASE ParseThrows(qrData) ->
                       ReportAndStop(t, given, CheckInFailed, thr)
                  [] ~ParseThrows(qrData) /\ courseId = NoId ->
                       ReportAndStop(t, task, InvalidQRCode, thr)
                  [] OTHER ->
                       /\ tasks' = [tasks EXCEPT ![t] =
                                      [task EXCEPT !.pc = "lookup",
                                                   !.calls = <<"lookup">>]]
                       /\ UNCHANGED scanners
    /\ UNCHANGED <<dbVars, now, req, session, ccVars, caVars, page, user, scanning, location,
                   scannerRef>>

\* the course lookup returns: net is whether the request reached the database
CourseLookupReturns(t, net, thr) ==
    /\ tasks[t].pc = "lookup"
    /\ LET task == tasks[t]
           course == IF net THEN Single(CourseLookup(task.courseId)) ELSE NoId
           courseError == ~net \/ course = NoId
           got == [task EXCEPT !.course = course,
                               !.failed = IF net THEN @ ELSE @ \cup {"lookup"}]
       IN  IF CourseMissing(courseError, course)
           THEN ReportAndStop(t, got, CourseNotFound, thr)
           ELSE /\ tasks' = [tasks EXCEPT ![t] =
                               [got EXCEPT !.pc = "dup",
                                           !.today = StartOfDay(now),
                                           !.calls = Append(@, "dup")]]
                /\ UNCHANGED scanners
    /\ UNCHANGED <<dbVars, now, req, session, ccVars, caVars, page, user, scanning, location,
                   scannerRef>>

\* the duplicate check-in query returns; its error is not read
DuplicateQueryReturns(t, net, thr) ==
    /\ tasks[t].pc = "dup"
    /\ LET task == tasks[t]
           rows == DuplicateQuery(session, task.user, task.courseId, task.today)
           existingRecord == IF net THEN Single(rows) ELSE 0
           got == [task EXCEPT !.matches = IF net THEN Cardinality(rows) ELSE 0,
                               !.existingRecord = existingRecord,
                               !.failed = IF net THEN @ ELSE @ \cup {"dup"}]
       IN  IF HasExistingRecord(existingRecord)
           THEN ReportAndStop(t, got, AlreadyCheckedIn, thr)
           ELSE /\ tasks' = [tasks EXCEPT ![t] =
                               [got EXCEPT !.pc = "insert",
                                           !.calls = Append(@, "insert")]]
                /\ UNCHANGED scanners
    /\ UNCHANGED <<dbVars, now, req, session, ccVars, caVars, page, user, scanning, location,
                   scannerRef>>

\* the insert returns an error (from the database or from the network):
\* throw insertError, caught: toast "Check-in failed", stopScanning()
InsertFails(t, why) ==
    /\ tasks' = [tasks EXCEPT ![t] =
                   [@ EXCEPT !.pc = "done",
                             !.failed = @ \cup {why},
                             !.toasts = @ \cup {CheckInFailed}]]
    /\ scanners' = stopScanning

\* the insert succeeded: stopScanning(); toast; setTimeout(navigate, 2000)
InsertSucceeds(t, id, thr) ==
    /\ tasks' = [tasks EXCEPT ![t] =
                   [@ EXCEPT !.pc = "done",
                             !.inserted = id,
                             !.toasts = @ \cup (IF Throws(thr) THEN {CheckInFailed}
                                                ELSE {CheckInSuccessful}),
                             !.nav = IF Throws(thr) THEN "none" ELSE "armed"]]
    /\ scanners' = stopScanning

\* the attendance insert returns
AttendanceInsertReturns(t, net, thr) ==
    /\ tasks[t].pc = "insert"
    /\ LET task == tasks[t]
       IN  IF net
           THEN /\ AttendanceInsert(session, task.user, task.courseId,
                                    Latitude(task.location), Longitude(task.location),
                                    Accuracy(task.location))
                /\ IF nextRecord' # nextRecord
                   THEN InsertSucceeds(t, nextRecord, thr)
                   ELSE InsertFails(t, "rejected")
           ELSE /\ UNCHANGED dbVars
                /\ InsertFails(t, "insert")
    /\ UNCHANGED <<now, req, session, ccVars, caVars, page, user, scanning, location, scannerRef>>

\* supabase.auth.getUser().then(...): the session's user, or navigate("/auth")
\* when there is none; leaving the page runs the effect's cleanup, stopScanning()
GetUserResolved ==
    /\ IF session = NULL
       THEN /\ page = "scan"
            /\ page' = "auth"
            /\ scanners' = stopScanning
            /\ UNCHANGED user
       ELSE /\ user = NULL /\ page = "scan"
            /\ user' = session
            /\ UNCHANGED <<page, scanners>>
    /\ UNCHANGED <<dbVars, now, req, session, ccVars, caVars, scanning, location, scannerRef, tasks>>

\* navigator.geolocation.getCurrentPosition's success callback: setLocation(...)
PositionDelivered(position) ==
    /\ page = "scan" /\ location = <<>>
    /\ location' = <<position>>
    /\ UNCHANGED <<dbVars, now, req, session, ccVars, caVars, page, user, scanning, scannerRef,
                   scanners, tasks>>

\* startScanning() up to its await: new Html5Qrcode, scannerRef.current = it,
\* html5QrCode.start(...) with the callbacks of this render
StartScanningPressed ==
    /\ page = "scan" /\ ~scanning
    /\ Len(scanners) < MaxStarts
    /\ scanners' = Append(scanners,
                          [state |-> "starting", user |-> user, location |-> location])
    /\ scannerRef' = Len(scanners) + 1
    /\ UNCHANGED <<dbVars, now, req, session, ccVars, caVars, page, user, scanning, location, tasks>>

\* html5QrCode.start resolved: setScanning(true)
StartResolved(i) ==
    /\ i \in DOMAIN scanners /\ scanners[i].state = "starting"
    /\ scanners' = [scanners EXCEPT ![i].state = "running"]
    /\ scanning' = TRUE
    /\ UNCHANGED <<dbVars, now, req, session, ccVars, caVars, page, user, location, scannerRef, tasks>>

\* html5QrCode.start rejected: the catch toasts "Camera error"
StartRejected(i) ==
    /\ i \in DOMAIN scanners /\ scanners[i].state = "starting"
    /\ scanners' = [scanners EXCEPT ![i].state = "failed"]
    /\ UNCHANGED <<dbVars, now, req, session, ccVars, caVars, page, user, scanning, location,
                   scannerRef, tasks>>

\* stop() resolved: scannerRef.current = null; setScanning(false)
StopResolved(i) ==
    /\ i \in DOMAIN scanners /\ scanners[i].state = "stopping"
    /\ scanners' = [scanners EXCEPT ![i].state = "stopped"]
    /\ scannerRef' = 0
    /\ scanning' = FALSE
    /\ UNCHANGED <<dbVars, now, req, session, ccVars, caVars, page, user, location, tasks>>

\* the Stop Scanning button: onClick={stopScanning}
StopScanningPressed ==
    /\ page = "scan" /\ scanning
    /\ scanners' = stopScanning
    /\ UNCHANGED <<dbVars, now, req, session, ccVars, caVars, page, user, scanning, location,
                   scannerRef, tasks>>

\* the Back button: navigate("/student"); the unmount runs stopScanning()
BackPressed ==
    /\ page = "scan"
    /\ page' = "student"
    /\ scanners' = stopScanning
    /\ UNCHANGED <<dbVars, now, req, session, ccVars, caVars, user, scanning, location, scannerRef,
                   tasks>>

\* the timer of a successful check-in fires: navigate("/student")
NavigateTimer(t) ==
    /\ tasks[t].nav = "armed"
    /\ tasks' = [tasks EXCEPT ![t].nav = "done"]
    /\ page' = "student"
    /\ scanners' = IF page = "scan" THEN stopScanning ELSE scanners
    /\ UNCHANGED <<dbVars, now, req, session, ccVars, caVars, user, scanning, location, scannerRef>>

\* time passes
Tick ==
    /\ now < MaxTime
    /\ now' = now + 1
    /\ UNCHANGED <<dbVars, req, clientVars>>

\* another client (another device of the student, another user, an anonymous
\* caller) sends an insert of an attendance record
OtherClientInserts(uid, student_id, course_id) ==
    /\ AttendanceInsert(uid, student_id, course_id, NullNum, NullNum, NullNum)
    /\ UNCHANGED <<now, req, clientVars>>

(***************************************************************************)
(* CreateCourse: the course form                                           *)
(***************************************************************************)
CourseCreated == "Course created!"
FailedToCreateCourse == "Failed to create course"

\* the page is not mounted
CreateCourseAway ==
    /\ cc_page = "away" /\ cc_user = NULL /\ cc_loading = FALSE
    /\ cc_form = <<>> /\ cc_request = <<>> /\ cc_toast = ""

\* the route /professor/create-course is opened: first render of CreateCourse.
\* s is the identity of the browser's auth session when the page opens (nobody,
\* or a user who signed in); it stays the session while the page is open
CreateCourseMounted(s) ==
    /\ cc_page # "create-course" /\ cc_request = <<>>
    /\ s \in users \cup {NULL}
    /\ session' = s
    /\ cc_page' = "create-course"
    /\ cc_user' = NULL /\ cc_loading' = FALSE /\ cc_toast' = ""
    /\ cc_form' = <<>>
    /\ UNCHANGED <<dbVars, now, req, scanVars, caVars, cc_request>>

\* supabase.auth.getUser().then(...): the auth server's user of the session, or
\* navigate("/auth") when there is none
CreateCourseGetUser ==
    /\ cc_page = "create-course" /\ cc_user = NULL
    /\ IF session \in users
       THEN cc_user' = session /\ UNCHANGED cc_page
       ELSE cc_page' = "auth" /\ UNCHANGED cc_user
    /\ UNCHANGED <<dbVars, now, req, session, scanVars, caVars, cc_loading, cc_form,
                   cc_request, cc_toast>>

\* courseSchema: name and code are strings of at least one character
NameOnlySchema(name, code) == name # ""
courseSchema(name, code) == name # "" /\ code # ""

\* the form's fields and its Cancel and submit buttons: disabled={loading}
NeverDisabled == FALSE
SubmitDisabled == cc_loading

\* handleSubmit up to its await: setLoading(true), courseSchema.parse, and the
\* insert with professor_id: user?.id; a parse error is caught and toasted, and
\* the finally resets loading.  The submit button is disabled while loading
handleSubmit(name, code) ==
    /\ cc_page = "create-course" /\ ~SubmitDisabled
    /\ cc_form' = <<[name |-> name, code |-> code]>>
    /\ IF courseSchema(name, code)
       THEN /\ cc_loading' = TRUE
            /\ cc_request' = Append(cc_request,
                                     [name |-> name, code |-> code,
                                      professor_id |-> cc_user])
            /\ UNCHANGED cc_toast
       ELSE /\ cc_toast' = FailedToCreateCourse
            /\ UNCHANGED <<cc_loading, cc_request>>
    /\ UNCHANGED <<dbVars, now, req, session, scanVars, caVars, cc_page, cc_user>>

\* the insert returns (net: the request reached the database): on success the
\* toast and navigate("/professor"), on an error the destructive toast; finally
\* setLoading(false)
CourseInsertReturns(net) ==
    /\ cc_request # <<>>
    /\ IF net
       THEN /\ CoursesInsert(session, cc_request[1].professor_id, cc_request[1].name)
            /\ Logged("form_insert_course", session, {})
       ELSE /\ UNCHANGED dbVars
            /\ Unlogged
    /\ IF nextCourse' # nextCourse
       THEN cc_toast' = CourseCreated /\ cc_page' = "professor"
       ELSE cc_toast' = FailedToCreateCourse /\ UNCHANGED cc_page
    /\ cc_loading' = FALSE
    /\ cc_request' = Tail(cc_request)
    /\ UNCHANGED <<now, session, scanVars, caVars, cc_user, cc_form>>

\* the Back button of the header: navigate("/professor")
CreateCourseBackPressed ==
    /\ cc_page = "create-course"
    /\ cc_page' = "professor"
    /\ UNCHANGED <<dbVars, now, req, session, scanVars, caVars, cc_user, cc_loading, cc_form,
                   cc_request, cc_toast>>

\* the Cancel button of the form: navigate("/professor")
CreateCourseCancelPressed ==
    /\ cc_page = "create-course" /\ ~SubmitDisabled
    /\ cc_page' = "professor"
    /\ UNCHANGED <<dbVars, now, req, session, scanVars, caVars, cc_user, cc_loading, cc_form,
                   cc_request, cc_toast>>

(***************************************************************************)
(* ProfessorDashboard and its ChatAnalytics dialog                         *)
(***************************************************************************)
NoStudentsToEmail == "No students to email"
WarningEmailsSent == "Warning emails sent!"

\* Math.random() returns r / RandomUnit for a draw r in 0..RandomUnit-1
RandomDraws == 0..(RandomUnit - 1)

\* the draws that reach both ends of a range and both sides of the 75% line
SampleDraws ==
    {0, (RandomUnit * 7) \div 10 - 1, (RandomUnit * 7) \div 10, RandomUnit - 1}
        \cap RandomDraws

\* the values successive calls of Math.random() return during one loadFakeData:
\* a cycle of at most MaxCycle draws, repeated
RandomStreams ==
    UNION {[1..n -> SampleDraws] : n \in 1..MaxCycle}

\* the k-th value (from 0) of a stream
Draw(stream, k) == stream[(k % Len(stream)) + 1]

\* Math.floor(Math.random() * n) for the draw r
FloorRandom(r, n) == (r * n) \div RandomUnit

\* `student-${course.id}-${i}` without the course id
StudentIdWithoutCourse(course_id, i) == <<"student", NoId, i>>

\* `student-${course.id}-${i}`
StudentId(course_id, i) == <<"student", course_id, i>>

\* courses.forEach of loadFakeData: the students pushed for the courses, in order;
\* k is the number of draws used so far (the draws of the names are left out:
\* no modelled field depends on them)
RECURSIVE GenerateStudents(_, _, _)
GenerateStudents(cs, stream, k) ==
    IF cs = <<>> THEN <<>>
    ELSE LET course_id == Head(cs)
             studentCount == FloorRandom(Draw(stream, k), 30) + 15
             pushed ==
                 [n \in 1..studentCount |->
                     [id |-> StudentId(course_id, n - 1),
                      attendance |-> FloorRandom(Draw(stream, k + n), 50) + 40,
                      course_id |-> course_id]]
         IN  pushed \o GenerateStudents(Tail(cs), stream, k + 1 + studentCount)

\* setStudents(allStudents); setLoading(false)
loadFakeData(cs, stream) ==
    /\ ca_students' = GenerateStudents(cs, stream, 0)
    /\ ca_loading' = FALSE

\* s => s.attendance <= 75
AtMost75(s) == s.attendance <= 75

\* the filter of lowAttendanceStudents: s => s.attendance < 75
LowAttendance(s) == s.attendance < 75

\* students.filter(s => s.attendance < 75), as positions in students
lowAttendanceStudents(students) ==
    {n \in 1..Len(students) : LowAttendance(students[n])}

\* the lists of courses loadCourses can set: rows of distinct ids (the primary
\* key), newest first (order by created_at descending; ids grow with creation)
CourseLists ==
    {cs \in UNION {[1..n -> CourseIds] : n \in 0..MaxCourses} :
        \A i, j \in DOMAIN cs : i < j => cs[i] > cs[j]}

\* the dashboard is not mounted
ChatAnalyticsAway ==
    /\ ca_open = FALSE /\ ca_courses = <<>> /\ ca_students = <<>>
    /\ ca_loading = TRUE /\ ca_sendingEmails = FALSE
    /\ ca_timers = <<>> /\ ca_toasts = <<>>

\* loadCourses resolved: setCourses(data); the effect on [open, courses] runs
\* loadFakeData when the dialog is open
CoursesLoaded(cs, stream) ==
    /\ ca_courses' = cs
    /\ IF ca_open THEN loadFakeData(cs, stream)
       ELSE UNCHANGED <<ca_students, ca_loading>>
    /\ UNCHANGED <<dbVars, now, req, session, scanVars, ccVars, ca_open,
                   ca_sendingEmails, ca_timers, ca_toasts>>

\* Open Chat pressed: setChatAnalyticsOpen(true); the effect runs loadFakeData
OpenChatPressed(stream) ==
    /\ ~ca_open
    /\ ca_open' = TRUE
    /\ loadFakeData(ca_courses, stream)
    /\ UNCHANGED <<dbVars, now, req, session, scanVars, ccVars, ca_courses,
                   ca_sendingEmails, ca_timers, ca_toasts>>

\* the dialog is dismissed: onOpenChange(false)
ChatClosed ==
    /\ ca_open
    /\ ca_open' = FALSE
    /\ UNCHANGED <<dbVars, now, req, session, scanVars, ccVars, ca_courses,
                   ca_students, ca_loading, ca_sendingEmails, ca_timers, ca_toasts>>

\* the Send Warning Emails button is rendered
SendButtonRendered ==
    ca_open /\ ~ca_loading /\ lowAttendanceStudents(ca_students) # {}

\* disabled={sendingEmails}
SendButtonDisabled == ca_sendingEmails

\* handleSendEmails up to its await; the closure holds lowAttendanceStudents of
\* the render the button was pressed in
handleSendEmails ==
    /\ SendButtonRendered /\ ~SendButtonDisabled
    /\ Len(ca_timers) + Len(ca_toasts) < MaxSends
    /\ LET low == lowAttendanceStudents(ca_students)
       IN  IF Cardinality(low) = 0
           THEN /\ ca_toasts' = Append(ca_toasts,
                      [variant |-> "destructive", title |-> NoStudentsToEmail,
                       count |-> 0])
                /\ UNCHANGED <<ca_sendingEmails, ca_timers>>
           ELSE /\ ca_sendingEmails' = TRUE
                /\ ca_timers' = Append(ca_timers, Cardinality(low))
                /\ UNCHANGED ca_toasts
    /\ UNCHANGED <<dbVars, now, req, session, scanVars, ccVars, ca_open, ca_courses,
                   ca_students, ca_loading>>

\* the setTimeout of 1500 ms fires: setSendingEmails(false) and the success toast
SendEmailsTimerFired ==
    /\ ca_timers # <<>>
    /\ ca_sendingEmails' = FALSE
    /\ ca_toasts' = Append(ca_toasts,
           [variant |-> "default", title |-> WarningEmailsSent,
            count |-> Head(ca_timers)])
    /\ ca_timers' = Tail(ca_timers)
    /\ UNCHANGED <<dbVars, now, req, session, scanVars, ccVars, ca_open, ca_courses,
                   ca_students, ca_loading>>

(***************************************************************************)
(* Initial states                                                          *)
(***************************************************************************)
\* the database right after the migration ran
EmptyDb ==
    /\ users = {} /\ deleted = {}
    /\ profiles = {} /\ user_roles = {} /\ courses = {} /\ attendance_records = {}
    /\ nextCourse = 1 /\ nextRecord = 1

InitDB ==
    /\ EmptyDb
    /\ now = 0
    /\ req = NoRequest
    /\ session = NULL
    /\ ScanQRAway
    /\ CreateCourseAway
    /\ ChatAnalyticsAway

\* the roles the policies ask for; 'student' is in the enum and in no policy
PolicyRoles == {"professor", "admin"}

(***************************************************************************)
(* Spec: the ScanQR page of one browser against the database               *)
(***************************************************************************)
\* two users have signed up, u2 is a professor and has created course 1
ScanDb ==
    /\ users = Users /\ deleted = {}
    /\ profiles = {ProfileRow(u, "") : u \in Users}
    /\ user_roles = {RoleRow("u1", "student"), RoleRow("u2", "professor")}
    /\ courses = {CourseRow(1, "u2", "x")}
    /\ attendance_records = {}
    /\ nextCourse = 2 /\ nextRecord = 1

\* the QR codes shown to the camera: the generator's code of every course id, and
\* a JSON text without a course id
QRCodes ==
    {QRCodeGenerator(c, "x", "x", 0) : c \in CourseIds}
        \cup {JsonObject(NoId, NoId, "", "", 0)}

Init ==
    /\ ScanDb
    /\ now = 0
    /\ req = NoRequest
    /\ session \in {"u1", NULL}
    /\ ScanQRMounted
    /\ CreateCourseAway
    /\ ChatAnalyticsAway

Next ==
    \/ GetUserResolved
    \/ \E p \in Positions : PositionDelivered(p)
    \/ StartScanningPressed
    \/ \E i \in 1..MaxStarts : StartResolved(i)
    \/ \E i \in 1..MaxStarts : StartRejected(i)
    \/ \E i \in 1..MaxStarts : StopResolved(i)
    \/ StopScanningPressed
    \/ BackPressed
    \/ \E i \in 1..MaxStarts, qr \in QRCodes, thr \in ThrowChoices :
           ScanDelivered(i, qr, thr)
    \/ \E t \in Scans, net \in BOOLEAN, thr \in ThrowChoices :
           CourseLookupReturns(t, net, thr)
    \/ \E t \in Scans, net \in BOOLEAN, thr \in ThrowChoices :
           DuplicateQueryReturns(t, net, thr)
    \/ \E t \in Scans, net \in BOOLEAN, thr \in ThrowChoices :
           AttendanceInsertReturns(t, net, thr)
    \/ \E t \in Scans : NavigateTimer(t)
    \/ Tick
    \/ \E uid \in Identities, cid \in CourseIds : OtherClientInserts(uid, "u1", cid)

Spec == Init /\ [][Next]_vars

\* C1: in every run of handleQRCodeScanned the network calls are issued in the
\* order course lookup, duplicate check-in query, attendance insert, each at most
\* once, and the insert is issued only after the lookup returned a course and the
\* duplicate query returned no record.
C1_CallsInOrder ==
    \A t \in Scans :
        /\ tasks[t].calls \in {<<>>, <<"lookup">>, <<"lookup", "dup">>,
                               <<"lookup", "dup", "insert">>}
        /\ Len(tasks[t].calls) = 3 =>
              /\ tasks[t].course # NoId /\ tasks[t].course = tasks[t].courseId
              /\ "lookup" \notin tasks[t].failed
              /\ tasks[t].existingRecord = 0

\* one run inserted a record and a later run of the same page stopped after the
\* duplicate query with "Already checked in"
C1_Witness ==
    \E t1, t2 \in Scans :
        /\ tasks[t1].inserted # 0
        /\ tasks[t2].pc = "done" /\ tasks[t2].calls = <<"lookup", "dup">>
        /\ tasks[t2].existingRecord = tasks[t1].inserted

\* the records created by runs of handleQRCodeScanned in which no call failed
ScanRecords ==
    {a \in attendance_records :
        \E t \in Scans : tasks[t].inserted = a.id /\ tasks[t].failed = {}}

\* C2: after any interleaving of scan callbacks the table holds at most one record
\* per (student, course) with checked_in_at in the same local calendar day.
C2_OneRecordPerDay ==
    \A a, b \in ScanRecords :
        (/\ a.student_id = b.student_id
         /\ a.course_id = b.course_id
         /\ StartOfDay(a.checked_in_at) = StartOfDay(b.checked_in_at)) => a = b

\* C3: whenever the duplicate query, served by the database, matched one or more
\* records of the student for the course in today's window, the run issues no
\* insert and ends reporting "Already checked in".
C3_ExistingRecordsBlockInsert ==
    \A t \in Scans :
        tasks[t].matches >= 1 =>
            /\ Len(tasks[t].calls) < 3
            /\ tasks[t].pc = "done" => AlreadyCheckedIn \in tasks[t].toasts

\* C4: whenever one of the three network calls of a run failed, the run shows a
\* destructive notification and creates no attendance record.
C4_FailureIsReported ==
    \A t \in Scans :
        (tasks[t].pc = "done" /\ tasks[t].failed # {}) =>
            /\ tasks[t].toasts \cap Destructive # {}
            /\ tasks[t].inserted = 0

\* C5: every attendance record was inserted by a request whose identity is the
\* row's student_id, and a run of handleQRCodeScanned whose user is null creates
\* no record.
C5_InsertOnlyOwnAttendance ==
    /\ \A a \in attendance_records :
          a.inserted_by # NULL /\ a.student_id = a.inserted_by
    /\ \A t \in Scans : tasks[t].user = NULL => tasks[t].inserted = 0

\* a signed-in browser scanned before getUser resolved: the insert was issued with
\* no student_id and the database refused it, while the student's other device
\* did insert a record
C5_Witness ==
    /\ session # NULL
    /\ \E t \in Scans :
          /\ tasks[t].user = NULL /\ tasks[t].pc = "done"
          /\ "rejected" \in tasks[t].failed
    /\ \E a \in attendance_records : a.inserted_by = session

\* C11: when the insert is issued (the duplicate query returned no record), the
\* latitude, longitude and location_accuracy it sends, which are those of the
\* record it creates, are the values of the position the browser has delivered
\* by then, whatever they are and whenever it arrived, and are null only when no
\* position has been delivered.
C11_RecordCarriesPosition ==
    [][\A t \in Scans :
          (tasks[t].pc = "dup" /\ tasks'[t].pc = "insert") =>
              IF location = <<>>
              THEN /\ Latitude(tasks'[t].location) = NullNum
                   /\ Longitude(tasks'[t].location) = NullNum
                   /\ Accuracy(tasks'[t].location) = NullNum
              ELSE /\ Latitude(tasks'[t].location) = Some(location[1].lat)
                   /\ Longitude(tasks'[t].location) = Some(location[1].lng)
                   /\ Accuracy(tasks'[t].location) = Some(location[1].accuracy)]_vars

\* C16: the step that ends a run of handleQRCodeScanned, on every path, has
\* called stopScanning (the scanner the page refers to is not left running), and
\* only a run that inserted its record and showed "Check-in successful!" arms or
\* performs the navigation to /student.
C16_EveryPathStops ==
    [][\A t \in Scans :
          /\ (tasks[t].pc # "done" /\ tasks'[t].pc = "done") =>
                /\ scannerRef # 0 => scanners'[scannerRef].state # "running"
                /\ tasks'[t].toasts # {}
          /\ tasks'[t].nav # "none" =>
                /\ tasks'[t].pc = "done"
                /\ tasks'[t].inserted # 0
                /\ tasks'[t].toasts = {CheckInSuccessful}
          /\ (tasks[t].nav # "done" /\ tasks'[t].nav = "done") =>
                tasks[t].nav = "armed" /\ page' = "student"]_vars

\* one run succeeded and its timer navigated to /student; the other run of the
\* same page failed, showed a destructive toast and armed no navigation
C16_Witness ==
    \E t1, t2 \in Scans :
        /\ tasks[t1].nav = "done" /\ tasks[t1].inserted # 0 /\ page = "student"
        /\ tasks[t2].pc = "done" /\ tasks[t2].nav = "none"
        /\ tasks[t2].toasts \cap {CourseNotFound, CheckInFailed, InvalidQRCode} # {}
        /\ \A i \in DOMAIN scanners : scanners[i].state # "running"

\* the scanning flag agrees with the scanner the page refers to
FlagMatchesScanner ==
    scanning <=> (scannerRef # 0 /\ scanners[scannerRef].state \in {"running", "stopping"})

\* no scanner whose start failed is referred to
NoFailedScannerReferenced ==
    scannerRef # 0 => scanners[scannerRef].state # "failed"

\* this step calls stopScanning: a run of handleQRCodeScanned ends, or the page
\* is left (the effect's cleanup)
StepCallsStopScanning ==
    \/ \E t \in Scans : tasks[t].pc # "done" /\ tasks'[t].pc = "done"
    \/ page = "scan" /\ page' # "scan"

\* stop() is invoked on a running scanner only
StopOnlyWhenRunning ==
    StepCallsStopScanning => (scannerRef = 0 \/ scanners[scannerRef].state = "running")

\* C17: in every state the scanning flag is true exactly when scannerRef holds a
\* scanner that was started and has not finished stopping, a scanner whose start
\* failed is not referred to, and every call of stopScanning finds no scanner or
\* a running one.
C17_ScannerLifecycle ==
    [][/\ FlagMatchesScanner' /\ NoFailedScannerReferenced'
       /\ StopOnlyWhenRunning]_vars

(***************************************************************************)
(* SpecQR: the ScanQR page of a signed-in student against every kind of    *)
(* text a QR code can hold; every request reaches the database             *)
(***************************************************************************)
\* the codes the professor's dashboard shows: QRCodeGenerator with the id, name
\* and code of an existing course, rendered at some time up to now
GeneratedQRCodes ==
    {QRCodeGenerator(c.id, c.name, code, ts) :
        c \in courses, code \in {"x"}, ts \in 0..now}

\* other texts a camera can decode: JSON objects that name a course by the id
\* member or by no member, the JSON texts null and 0, and texts that are not JSON
ForeignQRCodes ==
    {JsonObject(NoId, c, "", "", 0) : c \in CourseIds \cup {NoId}}
        \cup {JsonNull, JsonPrimitive}
        \cup {PlainText(c) : c \in CourseIds \cup {NoId}}

InitQR ==
    /\ ScanDb
    /\ now \in 0..MaxTime
    /\ req = NoRequest
    /\ session = "u1"
    /\ ScanQRMounted
    /\ CreateCourseAway
    /\ ChatAnalyticsAway

NextQR ==
    \/ GetUserResolved
    \/ StartScanningPressed
    \/ \E i \in 1..MaxStarts : StartResolved(i)
    \/ \E i \in 1..MaxStarts : StopResolved(i)
    \/ \E i \in 1..MaxStarts, qr \in GeneratedQRCodes \cup ForeignQRCodes,
          thr \in ThrowChoices :
           ScanDelivered(i, qr, thr)
    \/ \E t \in Scans, thr \in ThrowChoices : CourseLookupReturns(t, TRUE, thr)
    \/ \E t \in Scans, thr \in ThrowChoices : DuplicateQueryReturns(t, TRUE, thr)
    \/ \E t \in Scans, thr \in ThrowChoices : AttendanceInsertReturns(t, TRUE, thr)
    \/ \E t \in Scans : NavigateTimer(t)
    \/ /\ CoursesInsert("u2", "u2", "x")
       /\ UNCHANGED <<now, req, clientVars>>

SpecQR == InitQR /\ [][NextQR]_vars

\* C12: a run of handleQRCodeScanned that was given the text QRCodeGenerator
\* makes for an existing course c, with any timestamp, resolves to c: its course
\* id is c, the course lookup finds c, and a record it inserts has course_id c.
C12_QRRoundTrip ==
    \A t \in Scans : \A c \in courses : \A ts \in 0..MaxTime :
        (tasks[t].pc # "idle"
           /\ tasks[t].qrData = QRCodeGenerator(c.id, c.name, "x", ts)) =>
            /\ tasks[t].courseId = c.id
            /\ InvalidQRCode \notin tasks[t].toasts
            /\ CourseNotFound \notin tasks[t].toasts
            /\ Len(tasks[t].calls) >= 2 => tasks[t].course = c.id
            /\ tasks[t].inserted # 0 =>
                  \E a \in attendance_records :
                      a.id = tasks[t].inserted /\ a.course_id = c.id

\* two runs were given codes of the same course made at different times; one has
\* inserted the record and the other was told "Already checked in"
C12_Witness ==
    \E t1, t2 \in Scans :
        /\ tasks[t1].qrData \in GeneratedQRCodes
        /\ tasks[t2].qrData \in GeneratedQRCodes
        /\ tasks[t1].qrData.timestamp # tasks[t2].qrData.timestamp
        /\ tasks[t1].courseId = tasks[t2].courseId
        /\ tasks[t1].inserted # 0
        /\ tasks[t2].pc = "done" /\ AlreadyCheckedIn \in tasks[t2].toasts

\* the texts that yield no course id: JSON without a truthy course_id or id
\* member, and the empty text
YieldsNoCourseId(q) ==
    \/ q.json # "none" /\ q.course_id = NoId /\ q.id = NoId
    \/ q.json = "none" /\ q.text = NoId

\* C15: a run of handleQRCodeScanned given a text that yields no course id ends
\* at once showing "Invalid QR Code", with none of the three network calls issued
\* and the scanner asked to stop; given a non-empty text that is not JSON it
\* looks up the course whose id is that text.
C15_InvalidQRCode ==
    [][\A t \in Scans :
          (tasks[t].pc = "idle" /\ tasks'[t].pc # "idle") =>
              LET q == tasks'[t].qrData
              IN  /\ YieldsNoCourseId(q) =>
                        /\ tasks'[t].pc = "done"
                        /\ tasks'[t].toasts = {InvalidQRCode}
                        /\ tasks'[t].calls = <<>>
                        /\ scannerRef # 0
                        /\ scanners'[scannerRef].state = "stopping"
                  /\ (q.json = "none" /\ q.text # NoId) =>
                        /\ tasks'[t].courseId = q.text
                        /\ tasks'[t].calls = <<"lookup">>]_vars

(***************************************************************************)
(* SpecCreate: the CreateCourse form of one browser, and other clients'    *)
(* inserts into courses, against the database                              *)
(***************************************************************************)
NextCreate ==
    \/ \E u \in Users :
           SignUp(u, NULL) /\ Unlogged /\ UNCHANGED <<now, clientVars>>
    \/ \E u \in Users :
           DeleteUser(u) /\ Unlogged /\ UNCHANGED <<now, clientVars>>
    \/ \E u \in Users, r \in PolicyRoles :
           InsertRole(u, u, r) /\ Unlogged /\ UNCHANGED <<now, clientVars>>
    \/ \E uid \in Identities, p \in Identities :
           /\ CoursesInsert(uid, p, "x") /\ Logged("insert_course", uid, {})
           /\ UNCHANGED <<now, clientVars>>
    \/ \E s \in Identities : CreateCourseMounted(s)
    \/ CreateCourseGetUser
    \/ \E name \in Names, code \in Names : handleSubmit(name, code)
    \/ \E net \in BOOLEAN : CourseInsertReturns(net)
    \/ CreateCourseBackPressed
    \/ CreateCourseCancelPressed

SpecCreate == InitDB /\ [][NextCreate]_vars

\* C7: a row is inserted into courses only when the requesting identity holds the
\* professor or admin role at the time of the insert, and a row inserted by the
\* CreateCourse form has professor_id equal to the identity of the request.
C7_CoursesInsertedByProfessors ==
    [][\A c \in courses' \ courses :
          /\ req'.op \in {"insert_course", "form_insert_course"}
          /\ \E r \in user_roles :
                 r.user_id = req'.uid /\ r.role \in {"professor", "admin"}
          /\ req'.op = "form_insert_course" => c.professor_id = req'.uid]_vars

\* the form has created a course for the signed-in professor and navigated, while
\* another user without any role exists
C7_Witness ==
    /\ req.op = "form_insert_course" /\ req.ok
    /\ cc_page = "professor" /\ cc_toast = CourseCreated
    /\ \E c \in courses : c.professor_id = session
    /\ \E u \in users : ~ \E r \in user_roles : r.user_id = u

\* C13: a courses insert is issued only with the name and code of the submitted
\* form, both non-empty; a submit whose name or code is empty issues no insert,
\* shows "Failed to create course" and leaves the page where it is.
C13_ValidationBeforeInsert ==
    [][/\ Len(cc_request') > Len(cc_request) =>
            LET sent == cc_request'[Len(cc_request')]
            IN  /\ cc_form' # <<>>
                /\ sent.name = cc_form'[1].name /\ sent.code = cc_form'[1].code
                /\ sent.name # "" /\ sent.code # ""
       /\ (cc_form' # cc_form /\ cc_form' # <<>>
             /\ (cc_form'[1].name = "" \/ cc_form'[1].code = "")) =>
            /\ cc_request' = cc_request
            /\ cc_toast' = FailedToCreateCourse
            /\ cc_page' = "create-course"
            /\ UNCHANGED <<courses, req>>]_vars

\* a form with an empty code was refused after an earlier submit of the same page
\* had been sent to the database and had come back with an error
C13_Witness ==
    /\ cc_page = "create-course" /\ cc_toast = FailedToCreateCourse
    /\ cc_form # <<>> /\ cc_form[1].name = "x" /\ cc_form[1].code = ""
    /\ cc_request = <<>> /\ ~cc_loading
    /\ req.op = "form_insert_course" /\ ~req.ok

\* this step starts an insert of handleSubmit / ends one / is a submit that
\* failed validation
SubmitSends == Len(cc_request') > Len(cc_request)
SubmitReturns == Len(cc_request') < Len(cc_request)
SubmitRefused == cc_form' # cc_form /\ cc_form' # <<>> /\ cc_request' = cc_request

\* loading is set when the insert is sent and false after every outcome, and at
\* most one insert of the form is in flight
LoadingGuardsSubmit ==
    /\ SubmitSends => cc_loading'
    /\ SubmitReturns => ~cc_loading'
    /\ SubmitRefused => ~cc_loading'
    /\ cc_loading' <=> cc_request' # <<>>
    /\ Len(cc_request') <= 1

\* C18: loading is set on submit and false after every outcome of handleSubmit,
\* at most one courses insert is in flight per form, and the page goes to
\* /professor only in a step in which an insert returned no error.
C18_NavigationOnlyAfterInsert ==
    [][/\ LoadingGuardsSubmit
       /\ (cc_page = "create-course" /\ cc_page' = "professor") =>
             (SubmitReturns /\ courses' # courses)]_vars

\* C18 as amended: loading is set on submit and false after every outcome of
\* handleSubmit, at most one courses insert is in flight per form, and
\* handleSubmit goes to /professor only when its insert returned no error; a
\* step that goes there without an insert having returned is a press of Back or
\* Cancel, which changes nothing else.
C18_SubmitNavigatesOnlyAfterInsert ==
    [][/\ LoadingGuardsSubmit
       /\ (SubmitReturns /\ cc_page' # cc_page) =>
             /\ courses' # courses /\ cc_toast' = CourseCreated
             /\ cc_page' = "professor"
       /\ (SubmitSends \/ SubmitRefused) => cc_page' = cc_page
       /\ (cc_page' # cc_page /\ cc_page' = "professor" /\ ~SubmitReturns) =>
             UNCHANGED <<dbVars, cc_request, cc_loading, cc_form, cc_toast>>]_vars

\* after an insert that came back with an error the form was submitted again:
\* loading is set and one insert is in flight
C18_Witness ==
    /\ cc_page = "create-course" /\ cc_loading /\ Len(cc_request) = 1
    /\ cc_toast = FailedToCreateCourse
    /\ req.op = "form_insert_course" /\ ~req.ok

(***************************************************************************)
(* SpecDB: the schema's integrity under arbitrary statements.  Every       *)
(* identity (a signed-in user, a user whose account was deleted but whose  *)
(* token still lives, an anonymous caller) may send any statement with any *)
(* values.                                                                 *)
(***************************************************************************)
NextDB ==
    \/ \E u \in Users :
           /\ SignUp(u, NULL)
           /\ UNCHANGED <<now, req, clientVars>>
    \/ \E u \in Users :
           /\ DeleteUser(u)
           /\ UNCHANGED <<now, req, clientVars>>
    \/ \E uid \in Identities, u \in Users, r \in PolicyRoles :
           /\ InsertRole(uid, u, r)
           /\ UNCHANGED <<now, req, clientVars>>
    \/ \E uid \in Identities, p \in Identities :
           /\ CoursesInsert(uid, p, "x")
           /\ UNCHANGED <<now, req, clientVars>>
    \/ \E uid \in Identities, id \in CourseIds, p \in Identities :
           /\ UpdateCourse(uid, id, p, "x")
           /\ UNCHANGED <<now, req, clientVars>>
    \/ \E uid \in Identities, id \in CourseIds :
           /\ DeleteCourse(uid, id)
           /\ UNCHANGED <<now, req, clientVars>>
    \/ \E uid \in Identities, sid \in Identities, cid \in CourseIds \cup {NoId} :
           /\ AttendanceInsert(uid, sid, cid, NullNum, NullNum, NullNum)
           /\ UNCHANGED <<now, req, clientVars>>
    \/ \E uid \in Identities, id \in 1..MaxRecords, sid \in Identities, cid \in CourseIds \cup {NoId} :
           /\ UpdateAttendance(uid, id, sid, cid)
           /\ UNCHANGED <<now, req, clientVars>>

SpecDB == InitDB /\ [][NextDB]_vars

\* C9: every attendance record references an existing course and an existing
\* user, whatever users, courses and records were inserted and whichever users
\* and courses were deleted (the deletes cascade).
C9_AttendanceReferencesExist ==
    \A a \in attendance_records :
        /\ a.course_id \in {c.id : c \in courses}
        /\ a.student_id \in users

\* a course was deleted by an admin who still exists, and the records that were
\* inserted for it are gone with it
C9_Witness ==
    /\ nextRecord > 1 /\ attendance_records = {}
    /\ nextCourse > 1 /\ courses = {}
    /\ deleted = {}

(***************************************************************************)
(* SpecProfiles: sign-ups, user deletions and the statements on profiles   *)
(* and user_roles.                                                         *)
(***************************************************************************)
NextProfiles ==
    \/ \E u \in Users, n \in MetaNames :
           /\ SignUp(u, n)
           /\ UNCHANGED <<now, req, clientVars>>
    \/ \E u \in Users :
           /\ DeleteUser(u)
           /\ UNCHANGED <<now, req, clientVars>>
    \/ \E uid \in Identities, id \in Users, n \in ProfileNames :
           /\ InsertProfile(uid, id, n)
           /\ UNCHANGED <<now, req, clientVars>>
    \/ \E uid \in Identities, id \in Users, newid \in Users, n \in ProfileNames :
           /\ UpdateProfile(uid, id, newid, n)
           /\ UNCHANGED <<now, req, clientVars>>
    \/ \E uid \in Identities, id \in Users :
           /\ DeleteProfile(uid, id)
           /\ UNCHANGED <<now, req, clientVars>>
    \/ \E uid \in Identities, u \in Users, r \in app_role :
           /\ InsertRole(uid, u, r)
           /\ UNCHANGED <<now, req, clientVars>>

SpecProfiles == InitDB /\ [][NextProfiles]_vars

\* C10: every auth user has exactly one profiles row whose id is the user's id,
\* and no profiles row belongs to a user that does not exist (a deleted user).
C10_OneProfilePerUser ==
    /\ \A u \in users : Cardinality({p \in profiles : p.id = u}) = 1
    /\ \A p \in profiles : p.id \in users /\ p.id \notin deleted

\* one user was deleted, the other remains and has updated the profile (only an
\* UPDATE sets full_name to NULL: the trigger coalesces it to '')
C10_Witness ==
    /\ deleted # {} /\ users # {}
    /\ \E p \in profiles : p.full_name = NULL

(***************************************************************************)
(* SpecRead and SpecUpdate: the row-level security of attendance_records   *)
(* and of courses.  req logs the last request when it is a SELECT on       *)
(* attendance_records or an UPDATE of courses.                             *)
(***************************************************************************)
\* a SELECT changes nothing and logs what the identity was given
ReadAttendance(uid) ==
    /\ UNCHANGED dbVars
    /\ Logged("select_attendance", uid, SelectAttendance(uid))

NextRead ==
    \/ \E u \in Users :
           /\ SignUp(u, NULL)
           /\ Unlogged
           /\ UNCHANGED <<now, clientVars>>
    \/ \E u \in Users :
           /\ DeleteUser(u)
           /\ Unlogged
           /\ UNCHANGED <<now, clientVars>>
    \/ \E uid \in Identities, u \in Users, r \in app_role :
           /\ InsertRole(uid, u, r)
           /\ Unlogged
           /\ UNCHANGED <<now, clientVars>>
    \/ \E uid \in Identities, p \in Identities :
           /\ CoursesInsert(uid, p, "")
           /\ Unlogged
           /\ UNCHANGED <<now, clientVars>>
    \/ \E uid \in Identities, sid \in Identities, cid \in CourseIds :
           /\ AttendanceInsert(uid, sid, cid, NullNum, NullNum, NullNum)
           /\ Unlogged
           /\ UNCHANGED <<now, clientVars>>
    \/ \E uid \in Identities :
           /\ ReadAttendance(uid)
           /\ UNCHANGED <<now, clientVars>>

SpecRead == InitDB /\ [][NextRead]_vars

NextUpdate ==
    \/ \E u \in Users :
           /\ SignUp(u, NULL)
           /\ Unlogged
           /\ UNCHANGED <<now, clientVars>>
    \/ \E u \in Users :
           /\ DeleteUser(u)
           /\ Unlogged
           /\ UNCHANGED <<now, clientVars>>
    \/ \E uid \in Identities, u \in Users, r \in PolicyRoles :
           /\ InsertRole(uid, u, r)
           /\ Unlogged
           /\ UNCHANGED <<now, clientVars>>
    \/ \E uid \in Identities, p \in Identities :
           /\ CoursesInsert(uid, p, "")
           /\ Unlogged
           /\ UNCHANGED <<now, clientVars>>
    \/ \E uid \in Identities, id \in CourseIds, p \in Identities, n \in Names :
           /\ UpdateCourse(uid, id, p, n)
           /\ Logged("update_course", uid, {})
           /\ UNCHANGED <<now, clientVars>>

SpecUpdate == InitDB /\ [][NextUpdate]_vars

\* C6: whenever an identity reads attendance_records, every row it is given is
\* its own (student_id is the identity) or the identity holds the professor or
\* admin role in user_roles at the time of the read.
C6_ReadOwnOrPrivileged ==
    [][req'.op = "select_attendance" =>
          \A a \in req'.rows :
              \/ a.student_id = req'.uid
              \/ \E r \in user_roles :
                     r.user_id = req'.uid /\ r.role \in {"professor", "admin"}]_vars

\* an identity holding only the student role read while another student's record
\* existed, and was given its own record only
C6_Witness ==
    /\ req.op = "select_attendance"
    /\ req.rows # {} /\ req.rows # attendance_records
    /\ \E r \in user_roles : r.user_id = req.uid /\ r.role = "student"
    /\ ~ \E r \in user_roles : r.user_id = req.uid /\ r.role \in PolicyRoles

\* C8: a courses row is changed by an UPDATE only when the requesting identity is
\* the row's professor_id or holds the admin role.
C8_UpdateByOwnerOrAdmin ==
    [][\A c \in courses :
          (req'.op = "update_course" /\ c \notin courses') =>
              \/ c.professor_id = req'.uid
              \/ \E r \in user_roles : r.user_id = req'.uid /\ r.role = "admin"]_vars

\* a professor without the admin role has changed an own course, while another
\* professor exists
C8_Witness ==
    /\ req.op = "update_course" /\ req.ok
    /\ ~ \E r \in user_roles : r.user_id = req.uid /\ r.role = "admin"
    /\ \E c \in courses : c.professor_id = req.uid /\ c.name = "x"
    /\ \E r \in user_roles : r.user_id # req.uid /\ r.role = "professor"

(***************************************************************************)
(* SpecAnalytics: the dashboard with its ChatAnalytics dialog. The timer   *)
(* of handleSendEmails is a setTimeout of the event loop: once armed it    *)
(* fires, hence the weak fairness of SendEmailsTimerFired.                 *)
(***************************************************************************)
\* the dashboard right after its first render
InitAnalytics ==
    /\ EmptyDb
    /\ now = 0
    /\ req = NoRequest
    /\ session = NULL
    /\ ScanQRAway
    /\ CreateCourseAway
    /\ ChatAnalyticsAway

NextAnalytics ==
    \/ \E cs \in CourseLists, stream \in RandomStreams : CoursesLoaded(cs, stream)
    \/ \E stream \in RandomStreams : OpenChatPressed(stream)
    \/ ChatClosed
    \/ handleSendEmails
    \/ SendEmailsTimerFired

SpecAnalytics ==
    InitAnalytics /\ [][NextAnalytics]_vars /\ WF_vars(SendEmailsTimerFired)

\* the students of the data set generated for a course
StudentsOf(c) == {n \in DOMAIN ca_students : ca_students[n].course_id = c}

\* the students of the data set with attendance below 75
Below75 == {n \in DOMAIN ca_students : ca_students[n].attendance < 75}

\* C19: every data set loadFakeData produced has between 15 and 45 students for
\* each course, every attendance is an integer between 40 and 90, the student ids
\* are pairwise distinct across courses, and a student is listed as low attendance
\* exactly when the attendance is below 75.
C19_FakeDataRanges ==
    /\ \A n \in DOMAIN ca_students :
           /\ ca_students[n].attendance \in Int
           /\ ca_students[n].attendance >= 40 /\ ca_students[n].attendance <= 90
           /\ Cardinality(StudentsOf(ca_students[n].course_id)) \in 15..45
           /\ n \in lowAttendanceStudents(ca_students)
                  <=> ca_students[n].attendance < 75
    /\ (ca_open /\ ~ca_loading) =>
           \A i \in DOMAIN ca_courses :
               Cardinality(StudentsOf(ca_courses[i])) \in 15..45
    /\ \A m, n \in DOMAIN ca_students :
           m # n => ca_students[m].id # ca_students[n].id

\* the dialog shows a data set of two courses in which one student is at 74 and
\* another at 75
C19_Witness ==
    /\ ca_open /\ ~ca_loading /\ Len(ca_courses) = 2
    /\ \A i \in DOMAIN ca_courses : StudentsOf(ca_courses[i]) # {}
    /\ \E m, n \in DOMAIN ca_students :
           /\ ca_students[m].attendance = 74 /\ ca_students[n].attendance = 75
           /\ m \in lowAttendanceStudents(ca_students)
           /\ n \notin lowAttendanceStudents(ca_students)

\* the step appends the success toast of the oldest waiting send
SendCompletes ==
    /\ ca_timers # <<>> /\ ca_timers' = Tail(ca_timers)
    /\ ~ca_sendingEmails'
    /\ ca_toasts' = Append(ca_toasts,
           [variant |-> "default", title |-> WarningEmailsSent,
            count |-> Head(ca_timers)])

\* the step starts a send for the students below 75 of the data set shown
SendStarts ==
    /\ Below75 # {}
    /\ ~ca_sendingEmails /\ ca_sendingEmails'
    /\ ca_timers' = Append(ca_timers, Cardinality(Below75))
    /\ ca_toasts' = ca_toasts

\* the step refuses to send: nobody is below 75
SendRefused ==
    /\ Below75 = {}
    /\ ~ca_sendingEmails /\ ~ca_sendingEmails'
    /\ ca_timers' = ca_timers
    /\ ca_toasts' = Append(ca_toasts,
           [variant |-> "destructive", title |-> NoStudentsToEmail, count |-> 0])

\* the step is part of a run of handleSendEmails
SendEmailsStep ==
    \/ ca_timers' # ca_timers
    \/ ca_toasts' # ca_toasts
    \/ ca_sendingEmails' # ca_sendingEmails

\* C14: handleSendEmails sends no request; with no student below 75 it shows a
\* destructive toast and sendingEmails stays false; otherwise sendingEmails
\* becomes true, eventually returns to false, and exactly one success toast
\* reports the number of students below 75 of the data set the button was
\* pressed on.
C14_SimulatedEmailSend ==
    /\ [][SendEmailsStep =>
             /\ UNCHANGED <<dbVars, req>>
             /\ SendStarts \/ SendCompletes \/ SendRefused]_vars
    /\ (ca_sendingEmails ~> ~ca_sendingEmails)

\* a send has finished: sendingEmails is false again and the one toast of the send
\* reports the students below 75 of the data set still shown
C14_Witness ==
    /\ ~ca_sendingEmails /\ ca_timers = <<>> /\ Len(ca_toasts) = 1
    /\ ca_toasts[1].title = WarningEmailsSent
    /\ ca_toasts[1].count = Cardinality(Below75) /\ Below75 # {}

====
